---- MODULE Spec2Model ----
\* A model of mguid::NamedTuple (include/NamedTuple.hpp): compile-time name
\* resolution (StringLiteral, NamedType, key_index, all_unique, is_one_of) and
\* the NamedTuple aggregate (construction, get, set, size, comparisons).
\* A compile-time rejection (failed requires-clause or static_assert) is an
\* outcome "rejected" of the operation: the operation has no effect.
EXTENDS Integers, Sequences, FiniteSets, TLC

VARIABLES
    phase,        \* "none" | "illformed" | "declared" | "live" | "resolve"
    named_types,  \* the pack NamedTypes... of the aggregate, in declaration order
    base,         \* the Base tuple's elements, position by position
    written,      \* per tag: the initializer, or the value of the last set<tag> (by_set)
    res,          \* outcome of the last operation on the aggregate
    other_nt,     \* the right-hand operand of a comparison
    needle,       \* Needle of a stand-alone name-resolution call
    haystack,     \* Haystack... of a stand-alone name-resolution call
    out           \* results of the stand-alone name-resolution calls

vars == <<phase, named_types, base, written, res, other_nt, needle, haystack, out>>

----------------------------------------------------------------------------
\* Bounds

MaxArity == 3
MaxVal == 1

\* Tags are char arrays with their terminator: "a", "b", "ab".
Tags == { <<1, 0>>, <<2, 0>>, <<1, 2, 0>> }

\* Payload types of descriptors.  The slots of an aggregate are all int; the
\* stand-alone name-resolution calls mix the payload types.
Types == { "int", "char" }

\* Element values.
Values == 0..MaxVal

Descriptors == [tag : Tags, type : Types]
IntDescriptors == [tag : Tags, type : {"int"}]

SeqsUpTo(S, n) == UNION { [1..k -> S] : k \in 0..n }

----------------------------------------------------------------------------
\* StringLiteral and NamedType

\* StringLiteral::operator==(StringLiteral<MSize>):
\* MSize == NSize && every one of the NSize chars equal.
StringLiteralEq(lhs, rhs) ==
    /\ Len(rhs) = Len(lhs)
    /\ \A i \in 1..Len(lhs) : lhs[i] = rhs[i]

\* a comparison whose loop returns after the first char
NamedTypeEqTagFirst(nt, other) == nt.tag[1] = other[1]

\* a comparison that accepts a tag that is a prefix of the other
NamedTypeEqTagPrefix(nt, other) ==
    LET n == IF Len(other) < Len(nt.tag) THEN Len(other) ELSE Len(nt.tag)
    IN  \A i \in 1..(n - 1) : nt.tag[i] = other[i]

\* NamedType::operator==(StringLiteral<MSize>):
\* MSize == Tag.size && every one of the Tag.size chars equal.
NamedTypeEqTag(nt, other) ==
    /\ Len(other) = Len(nt.tag)
    /\ \A i \in 1..Len(nt.tag) : nt.tag[i] = other[i]

\* a comparison that takes the payload type for part of the identity
NamedTypeEqWithType(nt, other) ==
    StringLiteralEq(nt.tag, other.tag) /\ nt.type = other.type

\* NamedType::operator==(NamedType<OtherTag, OtherType>): Tag == OtherTag.
NamedTypeEq(nt, other) == StringLiteralEq(nt.tag, other.tag)

----------------------------------------------------------------------------
\* Name resolution

\* The && fold of key_index: stop at the first Type with Needle == Type,
\* ++index otherwise.
RECURSIVE key_index_fold(_, _, _)
key_index_fold(Needle, Haystack, index) ==
    IF index = Len(Haystack) THEN index
    ELSE IF NamedTypeEq(Needle, Haystack[index + 1]) THEN index
    ELSE key_index_fold(Needle, Haystack, index + 1)

\* a key_index that resolves to the last match
key_index_last(Needle, Haystack) ==
    LET hits == { i \in 0..(Len(Haystack) - 1) : NamedTypeEq(Needle, Haystack[i + 1]) }
    IN  IF hits = {} THEN Len(Haystack)
        ELSE CHOOSE i \in hits : \A j \in hits : j <= i

\* key_index<NamedType Needle, NamedType... Haystack>()
key_index(Needle, Haystack) == key_index_fold(Needle, Haystack, 0)

\* The && fold of the StringLiteral overload; Needle == Type is the reversed
\* NamedType::operator==(StringLiteral).
RECURSIVE key_index_tag_fold(_, _, _)
key_index_tag_fold(Needle, Haystack, index) ==
    IF index = Len(Haystack) THEN index
    ELSE IF NamedTypeEqTag(Haystack[index + 1], Needle) THEN index
    ELSE key_index_tag_fold(Needle, Haystack, index + 1)

\* a key_index that counts the matching descriptor too
key_index_tag_off(Needle, Haystack) ==
    LET i == key_index_tag_fold(Needle, Haystack, 0)
    IN  IF i + 1 < Len(Haystack) THEN i + 1 ELSE 0

\* key_index<StringLiteral Needle, NamedType... Haystack>()
key_index_tag(Needle, Haystack) == key_index_tag_fold(Needle, Haystack, 0)

\* an all_unique that only looks at neighbouring descriptors
all_unique_adjacent(NamedTypes) ==
    \A i \in 1..(Len(NamedTypes) - 1) : ~NamedTypeEq(NamedTypes[i], NamedTypes[i + 1])

\* all_unique<NamedType... NamedTypes>(): mark seen[key_index<Type, NamedTypes...>()]
\* for every Type of the pack, then require every seen[i].
all_unique(NamedTypes) ==
    IF Len(NamedTypes) = 0 THEN TRUE
    ELSE LET seen == [i \in 0..(Len(NamedTypes) - 1) |->
                         \E k \in 1..Len(NamedTypes) :
                             key_index(NamedTypes[k], NamedTypes) = i]
         IN  \A i \in 0..(Len(NamedTypes) - 1) : seen[i]

\* all_unique as written, over a key_index that resolves to the last match:
\* the variant of the pair (key_index, all_unique) that the design notes warn of.
all_unique_last(NamedTypes) ==
    IF Len(NamedTypes) = 0 THEN TRUE
    ELSE LET seen == [i \in 0..(Len(NamedTypes) - 1) |->
                         \E k \in 1..Len(NamedTypes) :
                             key_index_last(NamedTypes[k], NamedTypes) = i]
         IN  \A i \in 0..(Len(NamedTypes) - 1) : seen[i]

\* is_one_of<StringLiteral Key, NamedType... NamedTypes>(): (... || (Key == NamedTypes))
is_one_of(Key, NamedTypes) ==
    \E i \in 1..Len(NamedTypes) : NamedTypeEqTag(NamedTypes[i], Key)

\* template <typename... NamedTypes> requires(all_unique<NamedTypes{}...>()) struct NamedTuple
NamedTupleRequires(NamedTypes) == all_unique(NamedTypes)

----------------------------------------------------------------------------
\* Stand-alone name-resolution calls (SpecResolve)

NoOut == [key_index |-> -1, key_index_tag |-> -1, all_unique |-> "none",
          is_one_of |-> "none", accepted |-> "none"]

BoolStr(b) == IF b THEN "true" ELSE "false"

NoOther == [named_types |-> <<>>, base |-> <<>>]

NoRes == [op |-> "none", ok |-> FALSE, tag |-> <<>>, index |-> -1, val |-> -1,
          arg |-> [conv |-> FALSE, val |-> -1],
          eq |-> FALSE, ord |-> "none"]

InitResolve ==
    /\ phase = "resolve"
    /\ named_types = <<>>
    /\ base = <<>>
    /\ written = <<>>
    /\ res = NoRes
    /\ other_nt = NoOther
    /\ needle \in Descriptors
    /\ haystack \in SeqsUpTo(Descriptors, MaxArity)
    /\ out = NoOut

CallKeyIndex ==
    /\ phase = "resolve"
    /\ out' = [out EXCEPT !.key_index = key_index(needle, haystack)]
    /\ UNCHANGED <<phase, named_types, base, written, res, other_nt, needle, haystack>>

CallKeyIndexTag ==
    /\ phase = "resolve"
    /\ out' = [out EXCEPT !.key_index_tag = key_index_tag(needle.tag, haystack)]
    /\ UNCHANGED <<phase, named_types, base, written, res, other_nt, needle, haystack>>

CallAllUnique ==
    /\ phase = "resolve"
    /\ out' = [out EXCEPT !.all_unique = BoolStr(all_unique(haystack))]
    /\ UNCHANGED <<phase, named_types, base, written, res, other_nt, needle, haystack>>

CallIsOneOf ==
    /\ phase = "resolve"
    /\ out' = [out EXCEPT !.is_one_of = BoolStr(is_one_of(needle.tag, haystack))]
    /\ UNCHANGED <<phase, named_types, base, written, res, other_nt, needle, haystack>>

\* The program names the type NamedTuple<Haystack...>.
Instantiate ==
    /\ phase = "resolve"
    /\ out' = [out EXCEPT !.accepted = BoolStr(NamedTupleRequires(haystack))]
    /\ UNCHANGED <<phase, named_types, base, written, res, other_nt, needle, haystack>>

NextResolve ==
    CallKeyIndex \/ CallKeyIndexTag \/ CallAllUnique \/ CallIsOneOf \/ Instantiate

SpecResolve == InitResolve /\ [][NextResolve]_vars

----------------------------------------------------------------------------
\* The NamedTuple aggregate

\* Inputs: NamedTuple declarations (any list of descriptors), initializers,
\* set arguments (a value of a convertible type, or of a type that is not
\* convertible to the slot's type), plain tuples, and other NamedTuples.
PairwiseDistinct(NamedTypes) ==
    \A i, j \in 1..Len(NamedTypes) : i # j => NamedTypes[i].tag # NamedTypes[j].tag

Declarations == SeqsUpTo(IntDescriptors, MaxArity)

SetArgs == [conv : {TRUE}, val : Values] \cup { [conv |-> FALSE, val |-> 0] }

Tuples == SeqsUpTo(Values, MaxArity)

Others ==
    UNION { { [named_types |-> d, base |-> v] : v \in [1..Len(d) -> Values] } :
            d \in { x \in SeqsUpTo(IntDescriptors, MaxArity) : PairwiseDistinct(x) } }

\* a size that returns the last index
size_last_index(NamedTypes) == IF Len(NamedTypes) = 0 THEN 0 ELSE Len(NamedTypes) - 1

\* NamedTuple::size(): sizeof...(NamedTypes)
size(NamedTypes) == Len(NamedTypes)

\* std::tuple_size<NamedTuple<NamedTypes...>>: sizeof...(NamedTypes)
tuple_size(NamedTypes) == Len(NamedTypes)

\* std::get<Index>(Base) is well-formed only for Index < tuple_size<Base>.
std_get_in_range(Index, Base) == Index < Len(Base)

std_get(Index, Base) == Base[Index + 1]

\* requires-clause of the four get<Tag>() overloads
get_requires(Tag, NamedTypes) ==
    Len(NamedTypes) > 0 /\ is_one_of(Tag, NamedTypes)

\* whether a call get<Tag>() compiles: the requires-clause and std::get<Index>
get_accepted(Tag, NamedTypes, Base) ==
    /\ get_requires(Tag, NamedTypes)
    /\ std_get_in_range(key_index_tag(Tag, NamedTypes), Base)

\* body of get<Tag>(): std::get<key_index<Tag, NamedTypes{}...>()>(Base)
get(Tag, NamedTypes, Base) == std_get(key_index_tag(Tag, NamedTypes), Base)

\* requires-clause of set<Tag>(Value&&)
set_requires(Tag, Value, NamedTypes) ==
    /\ Len(NamedTypes) > 0
    /\ is_one_of(Tag, NamedTypes)
    /\ Value.conv

set_accepted(Tag, Value, NamedTypes, Base) ==
    /\ set_requires(Tag, Value, NamedTypes)
    /\ std_get_in_range(key_index_tag(Tag, NamedTypes), Base)

\* a set that assigns the value to the whole Base
set_all(Tag, Value, NamedTypes, Base) ==
    [i \in 1..Len(Base) |-> Value.val]

\* a set that assigns to the first slot whatever the tag
set_first(Tag, Value, NamedTypes, Base) ==
    [Base EXCEPT ![1] = Value.val]

\* body of set<Tag>(value): std::get<Index>(Base) = value
set(Tag, Value, NamedTypes, Base) ==
    [Base EXCEPT ![key_index_tag(Tag, NamedTypes) + 1] = Value.val]

\* a SynthThreeWay without the u < t branch
SynthThreeWayNoGreater(t, u) ==
    IF t < u THEN "less" ELSE "equivalent"

\* SynthThreeWay(t, u) on integers
SynthThreeWay(t, u) ==
    IF t < u THEN "less" ELSE IF u < t THEN "greater" ELSE "equivalent"

\* a comparison without the static_assert on the arities
named_compare_accepted_no_assert(NamedTypes, Base, other) ==
    \A k \in 1..Len(NamedTypes) :
        /\ Len(NamedTypes) > 0 /\ is_one_of(NamedTypes[k].tag, NamedTypes)
        /\ Len(other.named_types) > 0 /\ is_one_of(NamedTypes[k].tag, other.named_types)

\* Whether a comparison with another NamedTuple compiles: the static_assert on
\* the arities and, for every tag of this pack, this->get<Tag>() and
\* other.get<Tag>().
named_compare_accepted(NamedTypes, Base, other) ==
    /\ Len(NamedTypes) = Len(other.named_types)
    /\ \A k \in 1..Len(NamedTypes) :
          /\ get_accepted(NamedTypes[k].tag, NamedTypes, Base)
          /\ get_accepted(NamedTypes[k].tag, other.named_types, other.base)

\* an operator== that compares position by position
operator_eq_positional(NamedTypes, Base, other) ==
    \A k \in 1..Len(NamedTypes) : Base[k] = other.base[k]

\* operator==(const NamedTuple<OtherNamedTypes...>&):
\* ((this->get<Tag>() == other.get<Tag>()) && ...), Tag over this pack
operator_eq(NamedTypes, Base, other) ==
    \A k \in 1..Len(NamedTypes) :
        get(NamedTypes[k].tag, NamedTypes, Base) =
            get(NamedTypes[k].tag, other.named_types, other.base)

\* The || fold of operator<=>: result = SynthThreeWay(...); stop when result != 0.
RECURSIVE spaceship_fold(_, _, _, _, _)
spaceship_fold(NamedTypes, Base, other, k, result) ==
    IF k > Len(NamedTypes) THEN result
    ELSE LET r == SynthThreeWay(get(NamedTypes[k].tag, NamedTypes, Base),
                                get(NamedTypes[k].tag, other.named_types, other.base))
         IN  IF r # "equivalent" THEN r
             ELSE spaceship_fold(NamedTypes, Base, other, k + 1, r)

\* an operator<=> that stops after the first tag
operator_spaceship_first(NamedTypes, Base, other) ==
    IF Len(NamedTypes) = 0 THEN "equivalent"
    ELSE SynthThreeWay(get(NamedTypes[1].tag, NamedTypes, Base),
                       get(NamedTypes[1].tag, other.named_types, other.base))

\* an operator<=> that walks the other operand's declaration order
operator_spaceship_other_order(NamedTypes, Base, other) ==
    LET r == spaceship_fold(other.named_types, other.base,
                            [named_types |-> NamedTypes, base |-> Base], 1, "equivalent")
    IN  IF r = "less" THEN "greater" ELSE IF r = "greater" THEN "less" ELSE r

\* operator<=>(const NamedTuple<OtherNamedTypes...>&)
operator_spaceship(NamedTypes, Base, other) ==
    IF Len(NamedTypes) = 0 /\ Len(other.named_types) = 0 THEN "equivalent"
    ELSE spaceship_fold(NamedTypes, Base, other, 1, "equivalent")

\* std::tuple comparison is well-formed only between tuples of equal size.
tuple_compare_accepted(Base, other) == Len(Base) = Len(other)

\* an operator== that stops after the first element
operator_eq_tuple_first(Base, other) ==
    Len(Base) > 0 => Base[1] = other[1]

\* operator==(const std::tuple<OtherTypes...>&): static_cast<const Base&>(*this) == other
operator_eq_tuple(Base, other) ==
    \A k \in 1..Len(Base) : Base[k] = other[k]

\* std::tuple's operator<=>: lexicographic, synth-three-way per position
RECURSIVE tuple_spaceship_fold(_, _, _)
tuple_spaceship_fold(Base, other, k) ==
    IF k > Len(Base) THEN "equivalent"
    ELSE LET r == SynthThreeWay(Base[k], other[k])
         IN  IF r # "equivalent" THEN r ELSE tuple_spaceship_fold(Base, other, k + 1)

\* operator<=>(const std::tuple<OtherTypes...>&): static_cast<const Base&>(*this) <=> other
operator_spaceship_tuple(Base, other) == tuple_spaceship_fold(Base, other, 1)

----------------------------------------------------------------------------
\* Actions on one aggregate (Spec)

TagSet(NamedTypes) == { NamedTypes[i].tag : i \in 1..Len(NamedTypes) }

\* position (1-based) at which a tag is declared
PosOf(t, NamedTypes) == CHOOSE i \in 1..Len(NamedTypes) : NamedTypes[i].tag = t

Init ==
    /\ phase = "none"
    /\ named_types = <<>>
    /\ base = <<>>
    /\ written = <<>>
    /\ res = NoRes
    /\ other_nt = NoOther
    /\ needle = [tag |-> <<1, 0>>, type |-> "int"]
    /\ haystack = <<>>
    /\ out = NoOut

\* The program names the type NamedTuple<NamedTypes...>.
Declare(NamedTypes) ==
    /\ phase = "none"
    /\ named_types' = NamedTypes
    /\ phase' = IF NamedTupleRequires(NamedTypes) THEN "declared" ELSE "illformed"
    /\ UNCHANGED <<base, written, res, other_nt, needle, haystack, out>>

\* NamedTuple(InitTypes&&... init_values): Base{init_values...}, one per slot
Construct(init_values) ==
    /\ phase = "declared"
    /\ Len(init_values) = Len(named_types)
    /\ base' = init_values
    /\ written' = [t \in TagSet(named_types) |->
                       [val |-> init_values[PosOf(t, named_types)], by_set |-> FALSE]]
    /\ phase' = "live"
    /\ UNCHANGED <<named_types, res, other_nt, needle, haystack, out>>

\* NamedTuple nt{}: no initializers, Base{} value-initializes every element
ConstructDefault ==
    /\ phase = "declared"
    /\ base' = [i \in 1..Len(named_types) |-> 0]
    /\ written' = [t \in TagSet(named_types) |-> [val |-> 0, by_set |-> FALSE]]
    /\ phase' = "live"
    /\ UNCHANGED <<named_types, res, other_nt, needle, haystack, out>>

Set(Tag, Value) ==
    /\ phase = "live"
    /\ LET ok == set_accepted(Tag, Value, named_types, base)
       IN  /\ base' = IF ok THEN set(Tag, Value, named_types, base) ELSE base
           /\ written' = IF ok /\ Tag \in DOMAIN written
                         THEN [written EXCEPT ![Tag] = [val |-> Value.val, by_set |-> TRUE]]
                         ELSE written
           /\ res' = [NoRes EXCEPT !.op = "set", !.ok = ok, !.tag = Tag, !.arg = Value,
                                   !.index = key_index_tag(Tag, named_types)]
    /\ UNCHANGED <<phase, named_types, other_nt, needle, haystack, out>>

Get(Tag) ==
    /\ phase = "live"
    /\ LET ok == get_accepted(Tag, named_types, base)
       IN  res' = [NoRes EXCEPT !.op = "get", !.ok = ok, !.tag = Tag,
                                !.index = key_index_tag(Tag, named_types),
                                !.val = IF ok THEN get(Tag, named_types, base) ELSE -1]
    /\ UNCHANGED <<phase, named_types, base, written, other_nt, needle, haystack, out>>

\* std::get<Index>(nt)
StdGet(Index) ==
    /\ phase = "live"
    /\ LET ok == std_get_in_range(Index, base)
       IN  res' = [NoRes EXCEPT !.op = "std_get", !.ok = ok, !.index = Index,
                                !.val = IF ok THEN std_get(Index, base) ELSE -1]
    /\ UNCHANGED <<phase, named_types, base, written, other_nt, needle, haystack, out>>

Size ==
    /\ phase = "live"
    /\ res' = [NoRes EXCEPT !.op = "size", !.ok = TRUE, !.val = size(named_types)]
    /\ UNCHANGED <<phase, named_types, base, written, other_nt, needle, haystack, out>>

TupleSize ==
    /\ phase = "live"
    /\ res' = [NoRes EXCEPT !.op = "tuple_size", !.ok = TRUE, !.val = tuple_size(named_types)]
    /\ UNCHANGED <<phase, named_types, base, written, other_nt, needle, haystack, out>>

Next ==
    \/ \E d \in Declarations : Declare(d)
    \/ \E v \in Tuples : Construct(v)
    \/ ConstructDefault
    \/ \E t \in Tags, a \in SetArgs : Set(t, a)
    \/ \E t \in Tags : Get(t)
    \/ \E i \in 0..MaxArity : StdGet(i)
    \/ Size
    \/ TupleSize

Spec == Init /\ [][Next]_vars

----------------------------------------------------------------------------
\* Comparisons of an aggregate with another aggregate or with a plain tuple
\* (SpecCompare).  The plain tuple operand is the other aggregate's Base.

InitCompare ==
    /\ phase = "compare"
    /\ \E a \in Others : named_types = a.named_types /\ base = a.base
    /\ written = <<>>
    /\ res = NoRes
    /\ other_nt \in Others
    /\ needle = [tag |-> <<1, 0>>, type |-> "int"]
    /\ haystack = <<>>
    /\ out = NoOut

Eq ==
    /\ phase = "compare"
    /\ LET ok == named_compare_accepted(named_types, base, other_nt)
       IN  res' = [NoRes EXCEPT !.op = "eq", !.ok = ok,
                                !.eq = IF ok THEN operator_eq(named_types, base, other_nt)
                                       ELSE FALSE]
    /\ UNCHANGED <<phase, named_types, base, written, other_nt, needle, haystack, out>>

Spaceship ==
    /\ phase = "compare"
    /\ LET ok == named_compare_accepted(named_types, base, other_nt)
       IN  res' = [NoRes EXCEPT !.op = "cmp", !.ok = ok,
                                !.ord = IF ok THEN operator_spaceship(named_types, base, other_nt)
                                        ELSE "none"]
    /\ UNCHANGED <<phase, named_types, base, written, other_nt, needle, haystack, out>>

EqTuple ==
    /\ phase = "compare"
    /\ LET ok == tuple_compare_accepted(base, other_nt.base)
       IN  res' = [NoRes EXCEPT !.op = "eq_tuple", !.ok = ok,
                                !.eq = IF ok THEN operator_eq_tuple(base, other_nt.base)
                                       ELSE FALSE]
    /\ UNCHANGED <<phase, named_types, base, written, other_nt, needle, haystack, out>>

SpaceshipTuple ==
    /\ phase = "compare"
    /\ LET ok == tuple_compare_accepted(base, other_nt.base)
       IN  res' = [NoRes EXCEPT !.op = "cmp_tuple", !.ok = ok,
                                !.ord = IF ok THEN operator_spaceship_tuple(base, other_nt.base)
                                        ELSE "none"]
    /\ UNCHANGED <<phase, named_types, base, written, other_nt, needle, haystack, out>>

NextCompare == Eq \/ Spaceship \/ EqTuple \/ SpaceshipTuple

SpecCompare == InitCompare /\ [][NextCompare]_vars

----------------------------------------------------------------------------
\* Reference notions the properties are stated against

\* the mapping from declared tag to stored value
NameMap(NamedTypes, Base) ==
    [t \in TagSet(NamedTypes) |-> Base[PosOf(t, NamedTypes)]]

\* first (0-based) position whose descriptor carries the tag, or the length
FirstMatch(tag, Haystack) ==
    LET hits == { i \in 0..(Len(Haystack) - 1) : Haystack[i + 1].tag = tag }
    IN  IF hits = {} THEN Len(Haystack)
        ELSE CHOOSE i \in hits : \A j \in hits : i <= j

\* lexicographic order of two integer sequences of equal length
LexOrder(x, y) ==
    LET diff == { k \in 1..Len(x) : x[k] # y[k] }
    IN  IF diff = {} THEN "equivalent"
        ELSE LET k == CHOOSE i \in diff : \A j \in diff : i <= j
             IN  IF x[k] < y[k] THEN "less" ELSE "greater"

\* the other operand's values, arranged in this operand's declaration order
Aligned(NamedTypes, o) ==
    [k \in 1..Len(NamedTypes) |-> NameMap(o.named_types, o.base)[NamedTypes[k].tag]]

\* the other operand with its declaration reordered by the permutation p
Reordered(o, p) ==
    [named_types |-> [k \in 1..Len(o.named_types) |-> o.named_types[p[k]]],
     base |-> [k \in 1..Len(o.base) |-> o.base[p[k]]]]

SameTags == TagSet(named_types) = TagSet(other_nt.named_types)

----------------------------------------------------------------------------
\* Properties

\* C1: after construction and any sequence of set calls, get<n>() returns the
\* value of the most recent set<n>, or n's initializer when no set<n> happened.
C1_GetReturnsLastSet ==
    /\ phase = "live" =>
          \A t \in TagSet(named_types) :
              /\ get_accepted(t, named_types, base)
              /\ get(t, named_types, base) = written[t].val
    /\ (res.op = "get" /\ res.ok) => res.val = written[res.tag].val

C1_Witness ==
    /\ res.op = "get" /\ res.ok
    /\ written[res.tag].by_set
    /\ res.index >= 1
    /\ \E t \in TagSet(named_types) : ~written[t].by_set /\ written[t].val # res.val

\* C2: operator== between two NamedTuples over the same tags compares by name:
\* it is true iff every tag's value is the same in both, whatever the
\* declaration orders.
C2_EqualityByName ==
    (res.op = "eq" /\ SameTags) =>
        /\ res.ok
        /\ res.eq <=> (NameMap(named_types, base) =
                       NameMap(other_nt.named_types, other_nt.base))

C2_Witness ==
    /\ res.op = "eq" /\ res.ok /\ res.eq
    /\ Len(named_types) = 3
    /\ \A k \in 1..3 : named_types[k].tag = other_nt.named_types[4 - k].tag
    /\ base # other_nt.base

\* C3: operator<=> between two NamedTuples over the same tags walks this
\* operand's declaration order, compares with the other's value for the same
\* tag, returns the first non-equivalent result (equivalent if none), and is
\* unchanged by any reordering of the other operand's declaration.
C3_OrderingByName ==
    (res.op = "cmp" /\ SameTags) =>
        /\ res.ok
        /\ res.ord = LexOrder(base, Aligned(named_types, other_nt))
        /\ \A p \in Permutations(1..Len(named_types)) :
              operator_spaceship(named_types, base, Reordered(other_nt, p)) = res.ord

C3_Witness ==
    /\ res.op = "cmp" /\ res.ok /\ res.ord = "less"
    /\ Len(named_types) = 2
    /\ named_types[1].tag = other_nt.named_types[2].tag
    /\ named_types[2].tag = other_nt.named_types[1].tag
    /\ base[1] < other_nt.base[2]
    /\ base[2] > other_nt.base[1]

\* C4: all_unique is true iff the tags of the list are pairwise distinct
\* (payload types ignored, the empty list is unique): a declaration is accepted
\* iff no two slots share a tag.
C4_AllUniqueIffDistinct ==
    /\ out.all_unique # "none" =>
          (out.all_unique = "true" <=> PairwiseDistinct(haystack))
    /\ out.accepted # "none" =>
          (out.accepted = "true" <=> PairwiseDistinct(haystack))

C4_Witness ==
    /\ out.all_unique = "false" /\ out.accepted = "false"
    /\ Len(haystack) = 3
    /\ haystack[1].tag = haystack[3].tag
    /\ haystack[1].type # haystack[3].type
    /\ haystack[2].tag # haystack[1].tag

\* C5: key_index returns the position of the first descriptor whose tag equals
\* the needle's tag (payload type ignored, for both overloads), and the
\* haystack's length when there is none.
C5_KeyIndexFirstMatch ==
    /\ out.key_index # -1 => out.key_index = FirstMatch(needle.tag, haystack)
    /\ out.key_index_tag # -1 => out.key_index_tag = FirstMatch(needle.tag, haystack)

C5_Witness ==
    /\ out.key_index = 1 /\ out.key_index_tag = 1
    /\ Len(haystack) = 3
    /\ haystack[2].tag = needle.tag /\ haystack[3].tag = needle.tag
    /\ haystack[2].type # needle.type

\* C6: get<tag> and set<tag> are accepted only for a declared tag (never on a
\* zero-arity aggregate); a call with an undeclared tag is rejected and leaves
\* the aggregate unchanged; the index of an accepted call is below the arity.
C6_Step ==
    (phase = "live" /\ res'.op \in {"get", "set"}) =>
        /\ res'.ok => /\ res'.tag \in TagSet(named_types)
                      /\ is_one_of(res'.tag, named_types)
                      /\ Len(named_types) > 0
                      /\ res'.index < Len(named_types)
        /\ res'.tag \notin TagSet(named_types) =>
              /\ ~res'.ok
              /\ base' = base /\ named_types' = named_types /\ written' = written

C6_UnknownTagRejected == [][C6_Step]_vars

C6_Witness ==
    /\ res.op = "set" /\ ~res.ok /\ res.arg.conv
    /\ Len(named_types) = 2
    /\ res.tag \notin TagSet(named_types)
    /\ res.index = Len(named_types)

\* C7: positional get at index i returns the same value as get by the tag
\* declared at position i, and key_index of that tag is i.
C7_PositionalEqualsNamed ==
    /\ phase = "live" =>
          \A i \in 0..(Len(named_types) - 1) :
              /\ key_index_tag(named_types[i + 1].tag, named_types) = i
              /\ get(named_types[i + 1].tag, named_types, base) = std_get(i, base)
    /\ (res.op = "std_get" /\ res.ok) =>
          res.val = get(named_types[res.index + 1].tag, named_types, base)

C7_Witness ==
    /\ res.op = "std_get" /\ res.ok /\ res.index = 2
    /\ written[named_types[3].tag].by_set
    /\ base[1] # base[3]

\* C8: comparing two NamedTuples of different arity with == or <=> is
\* rejected, never answered; with the same tags it is accepted.
C8_ArityMismatchRejected ==
    res.op \in {"eq", "cmp"} =>
        /\ Len(named_types) # Len(other_nt.named_types) =>
              ~res.ok /\ ~res.eq /\ res.ord = "none"
        /\ SameTags => res.ok

C8_Witness ==
    /\ res.op = "eq" /\ ~res.ok
    /\ Len(named_types) = 2 /\ Len(other_nt.named_types) = 1
    /\ other_nt.named_types[1].tag = named_types[1].tag
    /\ other_nt.base[1] = base[1]

\* C9: comparing a NamedTuple with a plain tuple of the same arity ignores the
\* names: == and <=> compare the slot values position by position
\* (lexicographic for <=>).
C9_TupleComparePositional ==
    Len(base) = Len(other_nt.base) =>
        /\ res.op = "eq_tuple" => res.ok /\ (res.eq <=> base = other_nt.base)
        /\ res.op = "cmp_tuple" => res.ok /\ res.ord = LexOrder(base, other_nt.base)

C9_Witness ==
    /\ res.op = "eq_tuple" /\ res.ok /\ res.eq
    /\ Len(base) = 2 /\ base[1] # base[2]
    /\ TagSet(named_types) # TagSet(other_nt.named_types)

\* C10: size() and tuple_size equal the number of declared slots, zero
\* included, and no operation changes the arity.
C10_Step ==
    phase \in {"declared", "live"} =>
        /\ named_types' = named_types
        /\ phase = "live" => Len(base') = Len(base)

C10_SizeIsArity ==
    /\ [](/\ res.op \in {"size", "tuple_size"} => res.val = Len(named_types)
          /\ phase = "live" => /\ Len(base) = Len(named_types)
                               /\ size(named_types) = Cardinality(TagSet(named_types))
                               /\ tuple_size(named_types) = size(named_types))
    /\ [][C10_Step]_vars

C10_Witness ==
    /\ res.op = "tuple_size" /\ res.val = 3
    /\ phase = "live"
    /\ \E t \in TagSet(named_types) : written[t].by_set

\* C11 (as claimed): over a key_index that resolves to the last match,
\* all_unique reports every list as unique, lists with a duplicate tag included.
C11_LastMatchReportsAllUnique ==
    out.all_unique # "none" => all_unique_last(haystack)

\* C11 (amended): the duplicate detection of all_unique does not depend on
\* which match key_index resolves to: over a last-match key_index it still
\* returns true exactly for the lists with pairwise distinct tags, the same
\* answer as over the first-match key_index.
C11_LastMatchStillDetects ==
    out.all_unique # "none" =>
        /\ all_unique_last(haystack) <=> PairwiseDistinct(haystack)
        /\ all_unique_last(haystack) <=> (out.all_unique = "true")

C11_Witness ==
    /\ out.all_unique = "false"
    /\ ~all_unique_last(haystack)
    /\ Len(haystack) = 3
    /\ haystack[2].tag = haystack[3].tag
    /\ haystack[1].tag # haystack[2].tag

\* the comparison with the operands exchanged: other <=> *this
ReverseOrd ==
    operator_spaceship(other_nt.named_types, other_nt.base,
                       [named_types |-> named_types, base |-> base])

Flip(ord) ==
    IF ord = "less" THEN "greater" ELSE IF ord = "greater" THEN "less" ELSE ord

SameOrder ==
    /\ Len(named_types) = Len(other_nt.named_types)
    /\ \A k \in 1..Len(named_types) : named_types[k].tag = other_nt.named_types[k].tag

\* C12 (as claimed): the ordering between two NamedTuples over the same tags is
\* antisymmetric whatever their declaration orders: A <=> B is less /
\* equivalent / greater exactly when B <=> A is greater / equivalent / less.
C12_AntisymmetricAnyOrder ==
    (res.op = "cmp" /\ SameTags) => ReverseOrd = Flip(res.ord)

\* C12 (amended): the ordering is antisymmetric when both operands declare the
\* tags in the same order; whatever the declaration orders, A <=> B is
\* equivalent exactly when B <=> A is equivalent.
C12_AntisymmetricSameOrder ==
    (res.op = "cmp" /\ SameTags) =>
        /\ SameOrder => ReverseOrd = Flip(res.ord)
        /\ (res.ord = "equivalent") <=> (ReverseOrd = "equivalent")

C12_Witness ==
    /\ res.op = "cmp" /\ res.ok /\ res.ord = "less"
    /\ SameOrder
    /\ Len(named_types) = 2
    /\ base[1] < other_nt.base[1]
    /\ base[2] > other_nt.base[2]
    /\ ReverseOrd = "greater"

\* C13: set<tag>(value) changes only the slot resolved for tag: every other
\* slot, the arity and the tag-to-index mapping are unchanged, so each slot
\* holds its initializer or the value last set under its own tag.
C13_Step ==
    (phase = "live" /\ res'.op = "set") =>
        /\ named_types' = named_types
        /\ Len(base') = Len(base)
        /\ \A t \in TagSet(named_types) :
              key_index_tag(t, named_types') = key_index_tag(t, named_types)
        /\ \A i \in 1..Len(base) :
              IF res'.ok /\ named_types[i].tag = res'.tag
              THEN base'[i] = res'.arg.val
              ELSE base'[i] = base[i]

C13_SetChangesOneSlot ==
    /\ [][C13_Step]_vars
    /\ [](phase = "live" =>
            \A i \in 1..Len(named_types) : base[i] = written[named_types[i].tag].val)

C13_Witness ==
    /\ res.op = "set" /\ res.ok
    /\ Len(named_types) = 3
    /\ res.index = 1
    /\ base[2] = res.arg.val
    /\ base[1] # base[2] /\ base[3] # base[2]
    /\ ~written[named_types[1].tag].by_set
    /\ ~written[named_types[3].tag].by_set

\* other == *this, the equality with the operands exchanged
ReverseEq ==
    operator_eq(other_nt.named_types, other_nt.base,
                [named_types |-> named_types, base |-> base])

\* C14: equality and ordering between NamedTuples over the same tags agree:
\* A == B exactly when A <=> B is equivalent, and A == B iff B == A.
C14_EqualityAgreesWithOrdering ==
    SameTags =>
        /\ res.op = "eq" =>
              /\ res.eq <=> (operator_spaceship(named_types, base, other_nt) = "equivalent")
              /\ res.eq <=> ReverseEq
        /\ res.op = "cmp" =>
              (res.ord = "equivalent") <=> operator_eq(named_types, base, other_nt)

C14_Witness ==
    /\ res.op = "eq" /\ res.ok /\ ~res.eq
    /\ Len(named_types) = 3
    /\ ~SameOrder
    /\ base[1] = Aligned(named_types, other_nt)[1]
    /\ base[3] # Aligned(named_types, other_nt)[3]
    /\ ~ReverseEq

\* C15: comparing (== or <=>) two NamedTuples of equal nonzero arity whose tag
\* sets differ is rejected: no result, no partial comparison over shared tags.
C15_DifferentTagsRejected ==
    ( /\ res.op \in {"eq", "cmp"}
      /\ Len(named_types) = Len(other_nt.named_types)
      /\ Len(named_types) > 0
      /\ ~SameTags ) =>
        ~res.ok /\ ~res.eq /\ res.ord = "none"

C15_Witness ==
    /\ res.op = "eq" /\ ~res.ok
    /\ Len(named_types) = 2 /\ Len(other_nt.named_types) = 2
    /\ named_types[1].tag = other_nt.named_types[1].tag
    /\ base[1] = other_nt.base[1]
    /\ named_types[2].tag \notin TagSet(other_nt.named_types)

====
